---- MODULE Spec2Model ----
(***************************************************************************)
(* Model of claumia's storage manager (src/storageManager.js) and of the   *)
(* agent / slash-command routes of the API server (src/unnamed/part_001).  *)
(*                                                                         *)
(* The file system is a function from paths to contents.  A path is the    *)
(* sequence of the string pieces it is concatenated from, so that          *)
(* filePath + '.tmp' is Append(filePath, ".tmp").  A content is missing,   *)
(* a JSON document holding a sequence of records, or garbage (bytes that   *)
(* JSON.parse rejects: an empty or truncated file).  Timestamps are the    *)
(* integers the ISO-8601 strings of toISOString() stand for; the strings   *)
(* have a fixed width, so their order is the order of the integers.        *)
(***************************************************************************)
EXTENDS Integers, Sequences, FiniteSets, TLC

\* ------------------------------------------------------------------ bounds
MaxTime == 2      \* last instant of the clock
MaxOps == 3       \* requests served in one behaviour
MaxFaults == 1    \* I/O failures and process deaths in one behaviour
PastTime == 0     \* a supplied timestamp not later than any clock reading

\* ------------------------------------------------------------------ paths
Kinds == {"agents", "commands"}
Procs == {1}

AGENTS_FILE == <<"agents.json">>
COMMANDS_FILE == <<"commands.json">>

FileOf(k) == IF k = "agents" THEN AGENTS_FILE ELSE COMMANDS_FILE

\* The slip of writing in place: the temporary path is the file's own path.
tempPathInPlace(filePath) == filePath

tempPath(filePath) == Append(filePath, ".tmp")

Paths == {FileOf(k) : k \in Kinds} \cup {tempPath(FileOf(k)) : k \in Kinds}

\* --------------------------------------------------------------- contents
Missing == [st |-> "missing", data |-> <<>>]
Garbage == [st |-> "garbage", data |-> <<>>]
Json(d) == [st |-> "json", data |-> d]

\* The slip of a rename that leaves an existing target as it is.
renameSyncNoReplace(f, from, to) ==
  IF from = to \/ f[to].st # "missing" THEN [f EXCEPT ![from] = Missing]
  ELSE [f EXCEPT ![to] = f[from], ![from] = Missing]

\* fs.renameSync(from, to): to takes from's content, from disappears;
\* renaming a path onto itself changes nothing.
renameSync(f, from, to) ==
  IF from = to THEN f ELSE [f EXCEPT ![to] = f[from], ![from] = Missing]

\* ----------------------------------------------------------------- values
TimeFields == {"createdAt", "updatedAt"}

FutureTime == MaxTime + 1  \* a supplied timestamp later than the clock

\* x || d for the field f of a payload: absent (undefined) and "" are falsy;
\* a supplied timestamp is a non-empty string.
OrDefault(p, f, d) ==
  IF f \in DOMAIN p /\ (f \in TimeFields \/ p[f] # "") THEN p[f] ELSE d

\* {...a, ...b}: every key of either, b's value where b has the key.
Spread(a, b) ==
  [f \in DOMAIN a \cup DOMAIN b |-> IF f \in DOMAIN b THEN b[f] ELSE a[f]]

\* Math.random().toString(36).substring(2, 11): at most 9 characters; the
\* draw 0 prints as "0" and leaves the empty string; two draws may agree.
GenIds == {"", "g"}

\* Request payloads (req.body) and ids (req.params.id): the empty payload,
\* and one that supplies an id, a falsy name, a model (a field a command
\* does not have) and both timestamps.
EmptyPayload == [f \in {} |-> ""]
Payloads ==
  { EmptyPayload,
    [id |-> "a", name |-> "", model |-> "m", createdAt |-> FutureTime,
     updatedAt |-> PastTime] }
ReqIds == {"a", "g"}

\* ------------------------------------------------------- storage manager
\* readJsonFile: ENOENT gives [], any other failure is thrown.
readJsonFile(c) ==
  IF c.st = "json" THEN [threw |-> FALSE, val |-> c.data]
  ELSE IF c.st = "missing" THEN [threw |-> FALSE, val |-> <<>>]
  ELSE [threw |-> TRUE, val |-> <<>>]

\* loadAgents / loadCommands: every error of readJsonFile is caught and
\* answered with [].
loadRecords(c) ==
  LET r == readJsonFile(c) IN
  IF r.threw THEN [threw |-> FALSE, val |-> <<>>] ELSE r

\* The slip of a scan that starts one element late.
findIndexSkipsFirst(recs, id) ==
  IF \E i \in 2..Len(recs) : recs[i].id = id
  THEN CHOOSE i \in 2..Len(recs) :
         recs[i].id = id /\ \A j \in 2..(i - 1) : recs[j].id # id
  ELSE 0

\* Array.prototype.findIndex, 1-based; 0 where JavaScript gives -1.
findIndex(recs, id) ==
  IF \E i \in 1..Len(recs) : recs[i].id = id
  THEN CHOOSE i \in 1..Len(recs) :
         recs[i].id = id /\ \A j \in 1..(i - 1) : recs[j].id # id
  ELSE 0

Null == [null |-> TRUE]

\* getAgent / getCommand: agents.find(...) || null, null on any error.
getRecord(c, id) ==
  LET l == loadRecords(c) IN
  IF l.threw THEN Null
  ELSE IF findIndex(l.val, id) = 0 THEN Null ELSE l.val[findIndex(l.val, id)]

\* The record saveAgent builds: t1 and t2 are its two clock readings.
newAgent(agentData, gid, t1, t2) ==
  [id |-> OrDefault(agentData, "id", gid),
   name |-> OrDefault(agentData, "name", "New Agent"),
   systemPrompt |-> OrDefault(agentData, "systemPrompt", ""),
   model |-> OrDefault(agentData, "model", "claude-opus"),
   createdAt |-> OrDefault(agentData, "createdAt", t1),
   updatedAt |-> t2]

\* The record saveCommand builds.
newCommand(commandData, gid, t1, t2) ==
  [id |-> OrDefault(commandData, "id", gid),
   name |-> OrDefault(commandData, "name", "new-command"),
   description |-> OrDefault(commandData, "description", ""),
   script |-> OrDefault(commandData, "script", ""),
   createdAt |-> OrDefault(commandData, "createdAt", t1),
   updatedAt |-> t2]

newRecord(k, p, gid, t1, t2) ==
  IF k = "agents" THEN newAgent(p, gid, t1, t2) ELSE newCommand(p, gid, t1, t2)

\* The slip of spreading the payload last: it wins over the protected fields.
mergeRecordPayloadLast(old, p, t) ==
  Spread([id |-> old.id, createdAt |-> old.createdAt, updatedAt |-> t],
         Spread(old, p))

\* The slip of not refreshing updatedAt.
mergeRecordStale(old, p, t) ==
  Spread(Spread(old, p),
         [id |-> old.id, createdAt |-> old.createdAt,
          updatedAt |-> old.updatedAt])

\* The record updateAgent / updateCommand builds from agents[index].
mergeRecord(old, p, t) ==
  Spread(Spread(old, p),
         [id |-> old.id, createdAt |-> old.createdAt, updatedAt |-> t])

\* The slip of adding the new record at the front.
unshiftRecord(recs, rec) == <<rec>> \o recs

\* agents.push(newAgent)
pushRecord(recs, rec) == Append(recs, rec)

\* agents.filter(agent => agent.id !== id)
filterOut(recs, id) == SelectSeq(recs, LAMBDA r : r.id # id)

\* The slip of leaving out the not-found test.
deleteNeverMisses(recs, filtered) == FALSE

\* deleteAgent / deleteCommand: filtered.length === agents.length
deleteMisses(recs, filtered) == Len(filtered) = Len(recs)

\* ------------------------------------------------------------------ state
VARIABLES
  fs,     \* path -> content: the two collection documents and their .tmp siblings
  dir,    \* whether CLAUDE_DIR exists
  now,    \* the clock getCurrentTimestamp reads
  pc,     \* per server process: "down", "idle", "write" (in writeJsonFile,
          \* before writeFileSync), "rename" (temp written, before renameSync)
  req,    \* per server process: the request being served or served last
  born,   \* history: per kind, for each record of the document, the id and
          \* createdAt it was created with, the clock at its creation and
          \* whether its createdAt was supplied
  served, \* the kind the requests of this behaviour address (the two
          \* documents share no path, so requests on different kinds do
          \* not interact; exploring one kind at a time bounds the search)
  ops,    \* requests begun
  faults  \* I/O failures and process deaths so far

vars == <<fs, dir, now, pc, req, born, served, ops, faults>>

NoReq == [op |-> "none", done |-> TRUE]

Init ==
  /\ fs = [q \in Paths |-> Missing]
  /\ dir = FALSE
  /\ now = 1
  /\ pc = [w \in Procs |-> "down"]
  /\ req = [w \in Procs |-> NoReq]
  /\ born = [k \in Kinds |-> <<>>]
  /\ served \in Kinds
  /\ ops = 0
  /\ faults = 0

\* ------------------------------------------------------------ initialize
\* The slip of writing the default document without the existence test.
ensureFileExistsAlways(f, filePath) == [f EXCEPT ![filePath] = Json(<<>>)]

\* ensureFileExists on a file system f: the file is written only if missing.
ensureFileExists(f, filePath) ==
  IF f[filePath].st = "missing" THEN [f EXCEPT ![filePath] = Json(<<>>)] ELSE f

\* The server starts: initialize() ensures both documents, then it listens.
initialize(w) ==
  /\ pc[w] = "down"
  /\ dir' = TRUE
  /\ fs' = ensureFileExists(ensureFileExists(fs, AGENTS_FILE), COMMANDS_FILE)
  /\ pc' = [pc EXCEPT ![w] = "idle"]
  /\ UNCHANGED <<now, req, born, served, ops, faults>>

\* The process dies inside the writeFileSync of ensureFileExists(k's file):
\* the file is left created and empty or truncated.  The documents ensured
\* before it are in place.  The run of initialize that follows finds the
\* file existing and leaves it alone.
initializeCrash(w, k) ==
  /\ pc[w] = "down" /\ faults < MaxFaults /\ k = served
  /\ fs[FileOf(k)].st = "missing"
  /\ fs' = [(IF k = "commands" THEN ensureFileExists(fs, AGENTS_FILE) ELSE fs)
            EXCEPT ![FileOf(k)] = Garbage]
  /\ dir' = TRUE
  /\ faults' = faults + 1
  /\ UNCHANGED <<now, pc, req, born, served, ops>>

\* getCurrentTimestamp: a reading of a clock that never runs backwards; now
\* is the last reading taken.
Readings == now..MaxTime

\* ----------------------------------------------------------------- routes
KindName(k) == IF k = "agents" THEN "Agent" ELSE "Command"

\* `${Kind} ${id} not found`, the message of the Error update and delete throw.
NotFoundMessage(k, id) == <<KindName(k), id, "not found">>

\* res.json({success: true, data})
Ok(data) == [status |-> 200, success |-> TRUE, data |-> data]
\* res.status(s).json({success: false, error})
Fail(s, error) == [status |-> s, success |-> FALSE, error |-> error]

\* GET /api/agents/:id, GET /api/slash-commands/:id
getRoute(k, found) ==
  IF found = Null THEN Fail(404, <<KindName(k), "not found">>) ELSE Ok(found)

\* The catch block every route ends with.
catchRoute(message) == Fail(500, message)

\* A request that ends without writing.
Finish(w, r, outcome, result, resp) ==
  /\ req' = [req EXCEPT ![w] =
       [r EXCEPT !.done = TRUE, !.outcome = outcome, !.result = result,
                 !.resp = resp, !.hist = <<>>,
                 !.data = IF outcome = "returned" THEN r.data ELSE <<>>]]
  /\ pc' = [pc EXCEPT ![w] = "idle"]

\* The request record at entry: pre is the document as the handler finds it.
Entry(k, op, id, p) ==
  [op |-> op, k |-> k, id |-> id, p |-> p, pre |-> fs[FileOf(k)], t |-> now,
   idx |-> 0, data |-> <<>>, hist |-> <<>>, wrote |-> FALSE, done |-> FALSE,
   outcome |-> "pending", result |-> Null, resp |-> Null]

\* History of the records a handler loads: none when the document is unreadable.
Loaded(k) == IF fs[FileOf(k)].st = "json" THEN born[k] ELSE <<>>

\* GET /api/agents, GET /api/slash-commands
listRoute(w, k) ==
  /\ pc[w] = "idle" /\ ops < MaxOps /\ k = served
  /\ ops' = ops + 1
  /\ LET l == loadRecords(fs[FileOf(k)]) IN
       Finish(w, Entry(k, "list", "", EmptyPayload), "returned", l.val, Ok(l.val))
  /\ UNCHANGED <<fs, dir, now, born, served, faults>>

\* GET /api/agents/:id
getByIdRoute(w, k, id) ==
  /\ pc[w] = "idle" /\ ops < MaxOps /\ k = served
  /\ ops' = ops + 1
  /\ LET found == getRecord(fs[FileOf(k)], id) IN
       Finish(w, Entry(k, "get", id, EmptyPayload),
              IF found = Null THEN "null" ELSE "returned", found,
              getRoute(k, found))
  /\ UNCHANGED <<fs, dir, now, born, served, faults>>

\* POST /api/agents: saveAgent up to its call of writeJsonFile.  t1 and t2
\* are the clock readings of its two calls of getCurrentTimestamp.
createRoute(w, k, p, gid, t1, t2) ==
  /\ pc[w] = "idle" /\ ops < MaxOps /\ k = served
  /\ t1 <= t2
  /\ LET l == loadRecords(fs[FileOf(k)])
         rec == newRecord(k, p, gid, t1, t2)
     IN req' = [req EXCEPT ![w] =
             [Entry(k, "create", "", p) EXCEPT
                !.t = t2, !.result = rec, !.data = pushRecord(l.val, rec),
                !.hist = Append(Loaded(k),
                                [id |-> rec.id, createdAt |-> rec.createdAt,
                                 t |-> t2, sup |-> "createdAt" \in DOMAIN p])]]
  /\ now' = t2
  /\ ops' = ops + 1
  /\ pc' = [pc EXCEPT ![w] = "write"]
  /\ UNCHANGED <<fs, dir, born, served, faults>>

\* PUT /api/agents/:id: updateAgent up to its call of writeJsonFile, or to
\* its throw when no record has the id.  t is the clock reading.
updateRoute(w, k, id, p, t) ==
  /\ pc[w] = "idle" /\ ops < MaxOps /\ k = served
  /\ ops' = ops + 1
  /\ LET l == loadRecords(fs[FileOf(k)])
         index == findIndex(l.val, id)
     IN IF index = 0
        THEN /\ Finish(w, Entry(k, "update", id, p), "NotFound", Null,
                       catchRoute(NotFoundMessage(k, id)))
             /\ now' = now
        ELSE LET updated == mergeRecord(l.val[index], p, t) IN
             /\ req' = [req EXCEPT ![w] =
                  [Entry(k, "update", id, p) EXCEPT
                     !.t = t, !.idx = index, !.result = updated,
                     !.data = [l.val EXCEPT ![index] = updated],
                     !.hist = Loaded(k)]]
             /\ pc' = [pc EXCEPT ![w] = "write"]
             /\ now' = t
  /\ UNCHANGED <<fs, dir, born, served, faults>>

\* The history of the records filterOut keeps.
filterHist(recs, hist, id) ==
  LET keep == {i \in 1..Len(recs) : recs[i].id # id}
      F[n \in 0..Len(recs)] ==
        IF n = 0 THEN <<>>
        ELSE IF n \in keep THEN Append(F[n - 1], hist[n]) ELSE F[n - 1]
  IN F[Len(recs)]

\* DELETE /api/agents/:id: deleteAgent up to its call of writeJsonFile, or
\* to its throw when the filter removed nothing.
deleteRoute(w, k, id) ==
  /\ pc[w] = "idle" /\ ops < MaxOps /\ k = served
  /\ ops' = ops + 1
  /\ LET l == loadRecords(fs[FileOf(k)])
         filtered == filterOut(l.val, id)
     IN IF deleteMisses(l.val, filtered)
        THEN Finish(w, Entry(k, "delete", id, EmptyPayload), "NotFound", Null,
                    catchRoute(NotFoundMessage(k, id)))
        ELSE /\ req' = [req EXCEPT ![w] =
                  [Entry(k, "delete", id, EmptyPayload) EXCEPT
                     !.result = [deleted |-> TRUE], !.data = filtered,
                     !.hist = filterHist(l.val, Loaded(k), id)]]
             /\ pc' = [pc EXCEPT ![w] = "write"]
  /\ UNCHANGED <<fs, dir, now, born, served, faults>>

\* ---------------------------------------------------------- writeJsonFile
IOErrorMessage == <<"EIO">>

\* fs.writeFileSync(tempPath, JSON.stringify(data)) completes.
writeTemp(w) ==
  /\ pc[w] = "write"
  /\ fs' = [fs EXCEPT ![tempPath(FileOf(req[w].k))] = Json(req[w].data)]
  /\ pc' = [pc EXCEPT ![w] = "rename"]
  /\ req' = [req EXCEPT ![w].wrote = TRUE]
  /\ UNCHANGED <<dir, now, born, served, ops, faults>>

\* fs.writeFileSync throws: nothing was written, or the file was opened
\* (created, truncated) and a part of the text was written.  The error
\* reaches the route's catch block.
writeTempFails(w, partial) ==
  /\ pc[w] = "write" /\ faults < MaxFaults
  /\ faults' = faults + 1
  /\ fs' = IF partial THEN [fs EXCEPT ![tempPath(FileOf(req[w].k))] = Garbage]
           ELSE fs
  /\ Finish(w, [req[w] EXCEPT !.wrote = partial], "IOError", Null,
            catchRoute(IOErrorMessage))
  /\ UNCHANGED <<dir, now, born, served, ops>>

\* fs.renameSync(tempPath, filePath) completes; the handler returns and the
\* route answers.
renameTemp(w) ==
  /\ pc[w] = "rename"
  /\ fs' = renameSync(fs, tempPath(FileOf(req[w].k)), FileOf(req[w].k))
  /\ born' = [born EXCEPT ![req[w].k] = req[w].hist]
  /\ Finish(w, req[w], "returned", req[w].result, Ok(req[w].result))
  /\ UNCHANGED <<dir, now, served, ops, faults>>

\* fs.renameSync throws: no path changes.
renameTempFails(w) ==
  /\ pc[w] = "rename" /\ faults < MaxFaults
  /\ faults' = faults + 1
  /\ Finish(w, req[w], "IOError", Null, catchRoute(IOErrorMessage))
  /\ UNCHANGED <<fs, dir, now, born, served, ops>>

\* The process dies inside writeJsonFile: before or inside writeFileSync
\* (the temp file untouched, or left truncated), or before renameSync.
crash(w, partial) ==
  /\ pc[w] \in {"write", "rename"} /\ faults < MaxFaults
  /\ faults' = faults + 1
  /\ fs' = IF partial /\ pc[w] = "write"
           THEN [fs EXCEPT ![tempPath(FileOf(req[w].k))] = Garbage]
           ELSE fs
  /\ req' = [req EXCEPT ![w] =
       [req[w] EXCEPT !.done = TRUE, !.outcome = "crashed", !.result = Null,
                      !.wrote = @ \/ (partial /\ pc[w] = "write"),
                      !.hist = <<>>, !.data = <<>>]]
  /\ pc' = [pc EXCEPT ![w] = "down"]
  /\ UNCHANGED <<dir, now, born, served, ops>>

\* ------------------------------------------------------- specification
Next ==
  \E w \in Procs :
       \/ initialize(w)
       \/ \E k \in Kinds : initializeCrash(w, k)
       \/ \E k \in Kinds : listRoute(w, k)
       \/ \E k \in Kinds, id \in ReqIds : getByIdRoute(w, k, id)
       \/ \E k \in Kinds, p \in Payloads, gid \in GenIds, t1, t2 \in Readings :
            createRoute(w, k, p, gid, t1, t2)
       \/ \E k \in Kinds, id \in ReqIds, p \in Payloads, t \in Readings :
            updateRoute(w, k, id, p, t)
       \/ \E k \in Kinds, id \in ReqIds : deleteRoute(w, k, id)
       \/ writeTemp(w)
       \/ \E partial \in BOOLEAN : writeTempFails(w, partial)
       \/ renameTemp(w)
       \/ renameTempFails(w)
       \/ \E partial \in BOOLEAN : crash(w, partial)

Spec == Init /\ [][Next]_vars

\* ------------------------------------------------------------ two writers
\* Two server processes on the same CLAUDE_DIR.  Nothing serializes them:
\* each handler is synchronous inside its process, but the file-system calls
\* of the two processes interleave.  fs.writeFileSync is an open that
\* creates or truncates the file, then the write of the text to the opened
\* file.  A process that has opened the temp file keeps writing to that
\* file when another process renames it: pc "writing" is an open temp file
\* still at the temp path, "writing-file" one that a rename has made the
\* visible document, "writing-orphan" one that a later rename has replaced.
RaceProcs == {1, 2}

InitRace ==
  /\ fs = [q \in Paths |-> Missing]
  /\ dir = FALSE
  /\ now = 1
  /\ pc = [w \in RaceProcs |-> "down"]
  /\ req = [w \in RaceProcs |-> NoReq]
  /\ born = [k \in Kinds |-> <<>>]
  /\ served \in Kinds
  /\ ops = 0
  /\ faults = 0

\* writeJsonFile: writeFileSync opens tempPath (O_CREAT | O_TRUNC).
openTemp(w) ==
  /\ pc[w] = "write"
  /\ fs' = [fs EXCEPT ![tempPath(FileOf(req[w].k))] = Garbage]
  /\ pc' = [pc EXCEPT ![w] = "writing"]
  /\ req' = [req EXCEPT ![w].wrote = TRUE]
  /\ UNCHANGED <<dir, now, born, served, ops, faults>>

\* The text written from offset 0 over the content c of the opened file:
\* the text itself, or, when another process has written a different text
\* to the file in the meantime and that text is longer, the text followed
\* by the other text's tail.
Overwrite(c, data, torn) ==
  IF c.st = "json" /\ c.data # data /\ torn THEN Garbage ELSE Json(data)

\* writeJsonFile: writeFileSync writes the text to the file it opened.
writeOpened(w, torn) ==
  /\ pc[w] \in {"writing", "writing-file", "writing-orphan"}
  /\ LET q == IF pc[w] = "writing" THEN tempPath(FileOf(req[w].k))
              ELSE FileOf(req[w].k)
     IN fs' = IF pc[w] = "writing-orphan" THEN fs
              ELSE [fs EXCEPT ![q] = Overwrite(fs[q], req[w].data, torn)]
  /\ pc' = [pc EXCEPT ![w] = "rename"]
  /\ UNCHANGED <<dir, now, req, born, served, ops, faults>>

\* Where the files the other processes have open are after w's rename.
AfterRename(w) ==
  [v \in DOMAIN pc |->
     IF v = w THEN "idle"
     ELSE IF req[v].op \in {"create", "update", "delete"} /\ req[v].k = req[w].k
     THEN (IF pc[v] = "writing" THEN "writing-file"
           ELSE IF pc[v] = "writing-file" THEN "writing-orphan" ELSE pc[v])
     ELSE pc[v]]

\* The slip of taking the temp file for the renaming writer's own: the
\* rename publishes that writer's text.
renameOwnText(w) ==
  /\ pc[w] = "rename"
  /\ fs[tempPath(FileOf(req[w].k))].st # "missing"
  /\ fs' = [fs EXCEPT ![FileOf(req[w].k)] = Json(req[w].data),
                      ![tempPath(FileOf(req[w].k))] = Missing]
  /\ born' = [born EXCEPT ![req[w].k] = req[w].hist]
  /\ req' = [req EXCEPT ![w] =
       [req[w] EXCEPT !.done = TRUE, !.outcome = "returned",
                      !.resp = Ok(req[w].result), !.hist = <<>>]]
  /\ pc' = AfterRename(w)
  /\ UNCHANGED <<dir, now, served, ops, faults>>

\* writeJsonFile: renameSync(tempPath, filePath) finds the temp file and
\* makes it the visible document, whatever it holds; the handler returns.
renameShared(w) ==
  /\ pc[w] = "rename"
  /\ fs[tempPath(FileOf(req[w].k))].st # "missing"
  /\ fs' = renameSync(fs, tempPath(FileOf(req[w].k)), FileOf(req[w].k))
  /\ born' = [born EXCEPT ![req[w].k] = req[w].hist]
  /\ req' = [req EXCEPT ![w] =
       [req[w] EXCEPT !.done = TRUE, !.outcome = "returned",
                      !.resp = Ok(req[w].result), !.hist = <<>>]]
  /\ pc' = AfterRename(w)
  /\ UNCHANGED <<dir, now, served, ops, faults>>

\* writeJsonFile: renameSync throws ENOENT, the temp file is gone; the
\* error reaches the route's catch block.
renameNoTemp(w) ==
  /\ pc[w] = "rename"
  /\ fs[tempPath(FileOf(req[w].k))].st = "missing"
  /\ Finish(w, req[w], "IOError", Null, catchRoute(<<"ENOENT">>))
  /\ UNCHANGED <<fs, dir, now, born, served, ops, faults>>

\* The two processes read the same clock, and the interleavings examined
\* are those of requests handled at one reading of it.
NextRace ==
  \E w \in RaceProcs :
    \/ initialize(w)
    \/ \E k \in Kinds, p \in Payloads, gid \in GenIds :
         createRoute(w, k, p, gid, now, now)
    \/ \E k \in Kinds, id \in ReqIds, p \in Payloads :
         updateRoute(w, k, id, p, now)
    \/ openTemp(w)
    \/ \E torn \in BOOLEAN : writeOpened(w, torn)
    \/ renameShared(w)
    \/ renameNoTemp(w)

SpecRace == InitRace /\ [][NextRace]_vars

\* ---------------------------------------------------------------- claims
Doc(k) == fs[FileOf(k)]
Temp(k) == fs[tempPath(FileOf(k))]
Writes == {"create", "update", "delete"}

\* What list() and get(id) answer in the current state.
list(k) == loadRecords(Doc(k)).val
get(k, id) == getRecord(Doc(k), id)

\* Process w has answered request op and nothing has been asked since.
Served(w, op) == req[w].op = op /\ req[w].done /\ req[w].outcome # "crashed"
Succeeded(w, op) == Served(w, op) /\ req[w].outcome = "returned"

\* The request's id matches no record of the collection it found.
Misses(w) == findIndex(loadRecords(req[w].pre).val, req[w].id) = 0

\* recs without its element at index i.
RemoveAt(recs, i) ==
  [j \in 1..(Len(recs) - 1) |-> IF j < i THEN recs[j] ELSE recs[j + 1]]

\* C1: with a single writer, writeJsonFile is an atomic replace.  From its
\* entry until renameSync the visible document holds the complete previous
\* contents, whatever was written to the temporary file; when the write
\* fails or the process dies before the rename the visible document still
\* holds the previous contents; when the write succeeds it holds the
\* complete new contents.
AtomicReplace ==
  \A w \in Procs :
    req[w].op \in Writes =>
      /\ pc[w] \in {"write", "rename"} => Doc(req[w].k) = req[w].pre
      /\ (req[w].done /\ req[w].outcome \in {"IOError", "crashed"})
           => Doc(req[w].k) = req[w].pre
      /\ (req[w].done /\ req[w].outcome = "returned")
           => Doc(req[w].k) = Json(req[w].data)

\* C1 witness: a write on a collection holding records failed after a part
\* of the text reached the temporary file.
AtomicReplaceWitness ==
  \E w \in Procs :
    /\ req[w].op \in Writes /\ req[w].done /\ req[w].outcome = "IOError"
    /\ req[w].wrote
    /\ Temp(req[w].k) = Garbage
    /\ Len(req[w].pre.data) > 0

\* C2 (as claimed): when the document exists but is not valid JSON, every
\* operation on the kind fails with a storage error that reaches the caller,
\* and the document is left unchanged.
CorruptDocumentFails ==
  \A w \in Procs :
    (/\ req[w].op \in Writes \cup {"list", "get"}
     /\ req[w].done /\ req[w].outcome # "crashed"
     /\ req[w].pre.st = "garbage")
      => /\ req[w].outcome \in {"ParseError", "IOError"}
         /\ req[w].resp.success = FALSE
         /\ Doc(req[w].k) = req[w].pre

\* C3 (as claimed): an update keeps the record's id and createdAt, and every
\* other field the payload supplies takes the supplied value.
UpdateTakesEveryOtherField ==
  \A w \in Procs :
    Succeeded(w, "update") =>
      LET old == req[w].pre.data[req[w].idx]
          new == Doc(req[w].k).data[req[w].idx]
      IN /\ new.id = old.id
         /\ new.createdAt = old.createdAt
         /\ \A f \in DOMAIN req[w].p \ {"id", "createdAt"} : new[f] = req[w].p[f]

\* C3 (amended): every record of a collection keeps the id and the createdAt
\* it was created with, whatever the update payloads supply; an update
\* gives every other supplied field except updatedAt the supplied value,
\* sets updatedAt to the clock reading, and returns the record it stored.
IdentityKept ==
  /\ \A k \in Kinds :
       Doc(k).st = "json" =>
         /\ Len(Doc(k).data) = Len(born[k])
         /\ \A i \in 1..Len(born[k]) :
              /\ Doc(k).data[i].id = born[k][i].id
              /\ Doc(k).data[i].createdAt = born[k][i].createdAt
  /\ \A w \in Procs :
       Succeeded(w, "update") =>
         LET new == Doc(req[w].k).data[req[w].idx]
         IN /\ new = req[w].result
            /\ new.id = req[w].id
            /\ \A f \in DOMAIN req[w].p \ {"id", "createdAt", "updatedAt"} :
                 new[f] = req[w].p[f]
            /\ new.updatedAt = req[w].t

\* C3 witness: an update whose payload supplies another id, another
\* createdAt and a name has been stored.
IdentityKeptWitness ==
  \E w \in Procs :
    /\ Succeeded(w, "update")
    /\ "id" \in DOMAIN req[w].p /\ req[w].p.id # req[w].id
    /\ "createdAt" \in DOMAIN req[w].p
    /\ req[w].p.createdAt # req[w].result.createdAt
    /\ "name" \in DOMAIN req[w].p
    /\ req[w].p.name # req[w].pre.data[req[w].idx].name

\* C4: delete(id) and update(id, partial) for an id that matches no record
\* fail with NotFound, write nothing and leave the document as it was.
MissLeavesCollection ==
  \A w \in Procs :
    ((Served(w, "update") \/ Served(w, "delete")) /\ Misses(w)) =>
      /\ req[w].outcome = "NotFound"
      /\ req[w].resp.success = FALSE
      /\ ~req[w].wrote
      /\ Doc(req[w].k) = req[w].pre

\* C4 witness: a delete missed on a collection that holds a record.
MissLeavesCollectionWitness ==
  \E w \in Procs :
    /\ Served(w, "delete") /\ Misses(w)
    /\ Len(req[w].pre.data) > 0

\* C5 (as claimed): a successful delete removes exactly the first record
\* with the id: the length decreases by exactly one.
DeleteRemovesOne ==
  \A w \in Procs :
    Succeeded(w, "delete") =>
      /\ Len(Doc(req[w].k).data) = Len(req[w].pre.data) - 1
      /\ Doc(req[w].k).data =
           RemoveAt(req[w].pre.data, findIndex(req[w].pre.data, req[w].id))

\* C6 (as claimed): no two records of a collection have the same id.
UniqueIds ==
  \A k \in Kinds :
    Doc(k).st = "json" =>
      \A i, j \in 1..Len(Doc(k).data) :
        i # j => Doc(k).data[i].id # Doc(k).data[j].id

\* C7 (as claimed): a get, update or delete whose id matches no record is
\* answered 404 {success: false, error: "<kind> not found"}, and only a
\* storage failure is answered 500.
NotFoundIs404 ==
  \A w \in Procs :
    (Served(w, "get") \/ Served(w, "update") \/ Served(w, "delete")) =>
      /\ (req[w].pre.st = "json" /\ Misses(w))
           => req[w].resp = Fail(404, <<KindName(req[w].k), "not found">>)
      /\ req[w].resp.status = 500 => req[w].outcome = "IOError"

\* C8 (as claimed): every record create returns has createdAt = updatedAt;
\* create({}) for an agent has a non-empty id and the default fields.
CreateStampsEqual ==
  \A w \in Procs :
    Succeeded(w, "create") =>
      /\ req[w].result.createdAt = req[w].result.updatedAt
      /\ (req[w].p = EmptyPayload /\ req[w].k = "agents") =>
           /\ req[w].result.id # ""
           /\ req[w].result.name = "New Agent"
           /\ req[w].result.systemPrompt = ""
           /\ req[w].result.model = "claude-opus"

RoundTrip ==
  \A w \in Procs :
    /\ (Succeeded(w, "create") /\ loadRecords(req[w].pre).val = <<>>) =>
         /\ list(req[w].k) = <<req[w].result>>
         /\ get(req[w].k, req[w].result.id) = req[w].result
    /\ (/\ Succeeded(w, "delete")
        /\ Len(req[w].pre.data) = 1
        /\ req[w].pre.data[1].id = req[w].id) =>
         /\ list(req[w].k) = <<>>
         /\ get(req[w].k, req[w].id) = Null

\* C10 witness: the record created on an empty collection has been deleted.
RoundTripWitness ==
  \E w \in Procs :
    /\ Succeeded(w, "delete")
    /\ Len(req[w].pre.data) = 1
    /\ req[w].pre.data[1].id = req[w].id
    /\ born[req[w].k] = <<>>

\* C11: two writers whose read-modify-write operations on one collection
\* interleave are not merged.  When both have read the same document and
\* both have returned success, the persisted collection is exactly what
\* one of the two wrote (the one that renamed last).
LastWriterWins ==
  \A w, v \in RaceProcs :
    (/\ w # v
     /\ req[w].op \in Writes /\ req[v].op \in Writes
     /\ req[w].done /\ req[w].outcome = "returned"
     /\ req[v].done /\ req[v].outcome = "returned"
     /\ req[w].k = req[v].k
     /\ req[w].pre = req[v].pre)
      => Doc(req[w].k) \in {Json(req[w].data), Json(req[v].data)}

\* C11 witness: a lost update.  Both writers updated the record they read
\* in the same document and both returned success; the persisted record is
\* the one v returned, and the name w gave it is absent.
LostUpdate ==
  \E w, v \in RaceProcs :
    /\ w # v
    /\ Succeeded(w, "update") /\ Succeeded(v, "update")
    /\ req[w].k = req[v].k /\ req[w].pre = req[v].pre
    /\ req[w].idx = req[v].idx
    /\ Doc(req[v].k) = Json(req[v].data)
    /\ Doc(req[v].k).data[req[v].idx] = req[v].result
    /\ req[w].result.name # req[v].result.name
    /\ \A i \in 1..Len(Doc(req[v].k).data) :
         Doc(req[v].k).data[i].name # req[w].result.name

EnsureKeepsRecords ==
  [][\A w \in Procs :
       (pc[w] = "down" /\ pc'[w] = "idle") =>
         \A k \in Kinds :
           /\ fs[FileOf(k)].st = "missing" =>
                readJsonFile(fs'[FileOf(k)]) = [threw |-> FALSE, val |-> <<>>]
           /\ fs[FileOf(k)].st # "missing" => fs'[FileOf(k)] = fs[FileOf(k)]
           /\ ensureFileExists(fs', FileOf(k)) = fs'
           /\ ensureFileExists(ensureFileExists(fs, FileOf(k)), FileOf(k))
                = ensureFileExists(fs, FileOf(k))]_vars

\* C13 witness: the server came up again after dying in a write, initialize
\* ran over a collection that holds records, and the records are there.
EnsureKeepsRecordsWitness ==
  \E w \in Procs :
    /\ pc[w] = "idle"
    /\ req[w].op \in Writes /\ req[w].outcome = "crashed"
    /\ Len(req[w].pre.data) > 0
    /\ Doc(req[w].k) = req[w].pre

\* C14: every writer of a collection goes through the one temp path of its
\* file.  Opening it for a write touches that path whoever else is writing
\* there; a rename that finds the temp file publishes whatever the path
\* holds at that moment, the renamer's text or not, complete or not, and
\* answers success; a rename that finds it already renamed away fails, the
\* files stay as they are and the request is answered with status 500.
SharedTempPath ==
  [][\A w \in RaceProcs :
       LET F == FileOf(req[w].k)
           T == tempPath(FileOf(req[w].k))
       IN /\ (pc[w] = "write" /\ pc'[w] = "writing") =>
               \A q \in Paths \ {T} : fs'[q] = fs[q]
          /\ (pc[w] = "rename" /\ pc'[w] = "idle") =>
               IF fs[T].st = "missing"
               THEN /\ fs' = fs
                    /\ req[w].wrote
                    /\ req'[w].outcome = "IOError"
                    /\ req'[w].resp.status = 500
               ELSE /\ fs'[F] = fs[T]
                    /\ fs'[T] = Missing
                    /\ req'[w].outcome = "returned"
                    /\ req'[w].resp.success]_vars

\* C14 witness: writer w wrote its text and returned success, and its
\* rename published the temp file that writer v had just truncated: the
\* visible document is incomplete, w's text is nowhere, and v is still
\* writing.
PublishedIncomplete ==
  \E w, v \in RaceProcs :
    /\ w # v
    /\ req[w].op \in Writes /\ req[w].done /\ req[w].outcome = "returned"
    /\ req[v].op \in Writes /\ req[v].k = req[w].k
    /\ pc[v] = "writing-file"
    /\ Doc(req[w].k) = Garbage
    /\ Temp(req[w].k) = Missing
    /\ req[w].pre.st = "json"

====
